---- MODULE Spec2Model ----
(***************************************************************************)
(* A model of go-minecraftping (src/minecraftping.go): one call of Ping    *)
(* against a TCP peer, two calls of Ping at once, and the pure packet      *)
(* builders makeHandshakePacket and putVarInt.                             *)
(*                                                                         *)
(* Bytes are the integers 0..255.  A uint64 is a sequence of 7-bit groups, *)
(* least significant first ("groups"), so that values beyond the range of  *)
(* TLC's 32-bit integers (2^32, 2^64-1) are represented exactly.           *)
(* Time is a tick counter; a step of Ping is one blocking call together    *)
(* with the local code that follows it up to the next blocking call.       *)
(***************************************************************************)
EXTENDS Integers, Sequences, FiniteSets, TLC

VARIABLES
    address, port, protocolVersion, timeout,  \* the arguments of Ping
    pc,             \* where the call is
    now,            \* the clock
    entry,          \* the clock when Ping was entered
    deadline,       \* Ping's local variable deadline (line 56)
    dialDeadline,   \* the deadline net.DialTimeout works under
    conn,           \* "none" | "open" | "closed"
    connDeadline,   \* the read/write deadline set on the connection
    deadlineSets,   \* number of successful conn.SetDeadline calls
    handshake,      \* the result of makeHandshakePacket
    requestPacket,  \* the package-level requestPacket (line 29)
    hsErr, reqErr,  \* what the two conn.Write calls returned (and Ping drops)
    out,            \* the bytes the connection took from Ping, in order
    response,       \* the bytes the peer sends, in order
    serverCloses,   \* the peer closes its side after sending them
    rpos,           \* number of bytes of response Ping's reads have taken
    broken,         \* the connection was reset
    buf,            \* the unread part of the bufio.Reader's buffer
    vx,             \* groups of the varint being read (ReadUvarint's x)
    outerLen,       \* the first varint read (the code discards it)
    packetId,       \* the second varint read
    length,         \* the third varint read
    payload,        \* the filled part of the payload slice
    nreads,         \* reads io.ReadFull made that returned bytes (counted
                    \* up to MaxReadsCounted)
    readAttempted,  \* Ping called a read on the connection's reader
    unmarshalled,   \* json.Unmarshal was called (on payload)
    lateIo,         \* some conn I/O succeeded at or after entry + timeout
    result,         \* what Ping returned
    events,         \* the calls Ping made on the network, in order
    parked,         \* the state of a second call of Ping while it is not
                    \* the one taking steps (NoCall when there is none)
    active,         \* which of the two calls the variables above hold
    varintArg,      \* the argument of a call of putVarInt on its own
    varintOut       \* the buffer that call of putVarInt wrote to

vars == <<address, port, protocolVersion, timeout, pc, now, entry, deadline,
          dialDeadline, conn, connDeadline, deadlineSets, handshake,
          requestPacket, hsErr, reqErr, out, response, serverCloses, rpos,
          broken,
          buf, vx, outerLen, packetId, length, payload, nreads, readAttempted,
          unmarshalled, lateIo, result, events, parked, active, varintArg,
          varintOut>>

-----------------------------------------------------------------------------
(* Bounds of the model *)

\* largest timeout argument, in ticks
MaxTimeout == 2
\* longest response enumerated byte by byte
MaxRespLen == 3
\* number of bytes one Read of the connection returns at most
MaxChunk == 2
\* longest address enumerated byte by byte
MaxAddrLen == 2

\* the reads of io.ReadFull are counted up to this number
MaxReadsCounted == 3
\* putVarInt is run on its own for every value from 0 up to this one
MaxVarintArg == 300

MaxTime == MaxTimeout + 1

-----------------------------------------------------------------------------
(* Program constants *)

DefaultPort == 25565
LatestProtocolVersion == 498
\* encoding/binary
MaxVarintLen32 == 5
MaxVarintLen64 == 10

NoDeadline == 0 - 1
MinInt32 == 0 - 2147483647 - 1
MaxInt32 == 2147483647

-----------------------------------------------------------------------------
(* uint64 values as 7-bit groups *)

RECURSIVE Groups(_)
\* the groups of a non-negative integer, without leading zero groups
Groups(v) == IF v < 128 THEN <<v>> ELSE <<v % 128>> \o Groups(v \div 128)

\* uint64(value) for an int32 value: the conversion sign-extends, so a
\* negative value has bits 31..63 set
Uint64OfInt32(value) ==
    IF value >= 0 THEN Groups(value)
    ELSE LET u == (value + 2147483647) + 1   \* the low 31 bits
         IN  << u % 128, (u \div 128) % 128, (u \div 16384) % 128,
                (u \div 2097152) % 128, (u \div 268435456) + 120,
                127, 127, 127, 127, 1 >>

RECURSIVE Canon(_)
\* without the high groups that are zero
Canon(g) == IF Len(g) > 1 /\ g[Len(g)] = 0 THEN Canon(SubSeq(g, 1, Len(g) - 1))
            ELSE g

IsZero(g) == \A i \in 1..Len(g) : g[i] = 0

\* value <= 2^31 - 1: it is an integer the model can compute with
Fits31(g) == LET c == Canon(g) IN Len(c) <= 4 \/ (Len(c) = 5 /\ c[5] < 8)
\* value <= 2^32 - 1
Fits32(g) == LET c == Canon(g) IN Len(c) <= 4 \/ (Len(c) = 5 /\ c[5] < 16)

RECURSIVE ToInt(_)
ToInt(g) == IF Len(g) = 0 THEN 0 ELSE g[1] + 128 * ToInt(Tail(g))

\* value > 2^48, the largest allocation of a 64-bit build: make panics
ExceedsMaxAlloc(g) ==
    LET c == Canon(g)
    IN  \/ Len(c) > 7
        \/ /\ Len(c) = 7
           /\ (c[7] > 64 \/ (c[7] = 64 /\ \E i \in 1..6 : c[i] # 0))

-----------------------------------------------------------------------------
(* The packet builders *)

\* a variant that leaves the continuation bit off
PutUvarintNoContinuation(buflen, x) ==
    LET g == Canon(x)
    IN  IF Len(g) > buflen
        THEN [panic |-> TRUE, bytes |-> <<>>]
        ELSE [panic |-> FALSE, bytes |-> g]

\* binary.PutUvarint into a buffer of buflen bytes: one byte per group, the
\* high bit set on all but the last; it indexes past the buffer, and
\* panics, when the value needs more than buflen bytes
PutUvarint(buflen, x) ==
    LET g == Canon(x)
    IN  IF Len(g) > buflen
        THEN [panic |-> TRUE, bytes |-> <<>>]
        ELSE [panic |-> FALSE,
              bytes |-> [i \in 1..Len(g) |->
                            IF i < Len(g) THEN g[i] + 128 ELSE g[i]]]

\* putVarInt(buf, value): buf with the uvarint of uint64(value) appended
putVarInt(b, value) ==
    LET w == PutUvarint(MaxVarintLen32, Uint64OfInt32(value))
    IN  IF b.panic \/ w.panic
        THEN [panic |-> TRUE, bytes |-> <<>>]
        ELSE [panic |-> FALSE, bytes |-> b.bytes \o w.bytes]

BufWrite(b, bytes) ==
    IF b.panic THEN b ELSE [panic |-> FALSE, bytes |-> b.bytes \o bytes]

EmptyBuffer == [panic |-> FALSE, bytes |-> <<>>]

\* a variant that writes the port least significant byte first
LittleEndian16(p) == << p % 256, p \div 256 >>

\* binary.Write(&buf, binary.BigEndian, port)
BigEndian16(p) == << p \div 256, p % 256 >>

\* a variant that counts the prefix itself in the length
makeHandshakePacketLenOff(addr, prt, pv) ==
    LET b1 == BufWrite(EmptyBuffer, <<0>>)
        b2 == putVarInt(b1, pv)
        b3 == putVarInt(b2, Len(addr))
        b4 == BufWrite(b3, addr)
        b5 == BufWrite(b4, BigEndian16(prt))
        b6 == putVarInt(b5, 1)
        o1 == IF b6.panic THEN b6
              ELSE putVarInt(EmptyBuffer, Len(b6.bytes) + 1)
    IN  IF b6.panic THEN b6 ELSE BufWrite(o1, b6.bytes)

makeHandshakePacket(addr, prt, pv) ==
    LET b1 == BufWrite(EmptyBuffer, <<0>>)
        b2 == putVarInt(b1, pv)
        b3 == putVarInt(b2, Len(addr))
        b4 == BufWrite(b3, addr)
        b5 == BufWrite(b4, BigEndian16(prt))
        b6 == putVarInt(b5, 1)
        o1 == IF b6.panic THEN b6
              ELSE putVarInt(EmptyBuffer, Len(b6.bytes))
    IN  IF b6.panic THEN b6 ELSE BufWrite(o1, b6.bytes)

RECURSIVE DecodeFrom(_, _, _)
\* binary.ReadUvarint over a byte sequence s, from position i, x the groups
\* read so far: the value and the number of bytes consumed
DecodeFrom(s, i, x) ==
    IF i > Len(s) THEN [err |-> "EOF", value |-> x, consumed |-> i - 1]
    ELSE IF s[i] < 128
         THEN IF Len(x) = MaxVarintLen64 - 1 /\ s[i] > 1
              THEN [err |-> "overflow", value |-> x, consumed |-> i]
              ELSE [err |-> "nil", value |-> x \o <<s[i]>>, consumed |-> i]
         ELSE IF Len(x) + 1 = MaxVarintLen64
              THEN [err |-> "overflow", value |-> x, consumed |-> i]
              ELSE DecodeFrom(s, i + 1, x \o <<s[i] - 128>>)

DecodeUvarint(s) == DecodeFrom(s, 1, <<>>)

-----------------------------------------------------------------------------
(* The reading side *)

ZeroResponse ==
    [VersionName |-> "", VersionProtocol |-> 0, PlayersMax |-> 0,
     PlayersOnline |-> 0, Sample |-> <<>>, Description |-> <<>>,
     Favicon |-> ""]

\* the bytes the enumerated responses are made of: the terminating varint
\* bytes 0, 2 and 5, and the continuation byte 0x80
ServerBytes == {0, 2, 5, 128}

\* the status JSON of a server of version 1.14.4 with 3 of 20 players:
\* {"version":{"name":"1.14.4","protocol":498},"players":{"max":20,
\* "online":3,"sample":[]},"description":"A server","favicon":""}
SamplePayload ==
    << 123, 34, 118, 101, 114, 115, 105, 111, 110, 34, 58, 123, 34, 110, 97,
       109, 101, 34, 58, 34, 49, 46, 49, 52, 46, 52, 34, 44, 34, 112, 114,
       111, 116, 111, 99, 111, 108, 34, 58, 52, 57, 56, 125, 44, 34, 112,
       108, 97, 121, 101, 114, 115, 34, 58, 123, 34, 109, 97, 120, 34, 58,
       50, 48, 44, 34, 111, 110, 108, 105, 110, 101, 34, 58, 51, 44, 34, 115,
       97, 109, 112, 108, 101, 34, 58, 91, 93, 125, 44, 34, 100, 101, 115,
       99, 114, 105, 112, 116, 105, 111, 110, 34, 58, 34, 65, 32, 115, 101,
       114, 118, 101, 114, 34, 44, 34, 102, 97, 118, 105, 99, 111, 110, 34,
       58, 34, 34, 125 >>

\* what json.Unmarshal stores in resp for SamplePayload; Description keeps
\* the raw bytes of its value, the quotes included
SampleResponse ==
    [VersionName |-> "1.14.4", VersionProtocol |-> 498, PlayersMax |-> 20,
     PlayersOnline |-> 3, Sample |-> <<>>,
     Description |-> <<34, 65, 32, 115, 101, 114, 118, 101, 114, 34>>,
     Favicon |-> ""]

RECURSIVE TrimSpaces(_)
\* p without the spaces (32) around it, which a JSON decoder skips
TrimSpaces(p) ==
    IF p # <<>> /\ Head(p) = 32 THEN TrimSpaces(Tail(p))
    ELSE IF p # <<>> /\ p[Len(p)] = 32
    THEN TrimSpaces(SubSeq(p, 1, Len(p) - 1))
    ELSE p

\* json.Unmarshal(payload, &resp) on a payload of the model.  Apart from
\* SamplePayload and spaces, the bytes of a payload are control bytes
\* (0..5), 0x80, '{' (123) and '}' (125): a JSON text begins with '{', '[',
\* '"', '-', a digit or a letter, and '{' is followed by '"' or '}', so of
\* those payloads the one that is valid JSON is "{}", which leaves every
\* field of resp zero
Unmarshal(p) ==
    IF TrimSpaces(p) = <<123, 125>>
    THEN [err |-> "nil", resp |-> ZeroResponse]
    ELSE IF TrimSpaces(p) = SamplePayload
    THEN [err |-> "nil", resp |-> SampleResponse]
    ELSE [err |-> "json", resp |-> ZeroResponse]

Expired(d) == d # NoDeadline /\ now >= d

\* the bytes of response not read yet
Unread == SubSeq(response, rpos + 1, Len(response))

\* a Read of the connection returns: it has something to report
ConnReadReady ==
    Expired(connDeadline) \/ broken \/ Unread # <<>> \/ serverCloses

\* the error of a conn.Read that returns now ("nil": it returns bytes)
ConnReadErr ==
    IF Expired(connDeadline) THEN "timeout"
    ELSE IF broken THEN "reset"
    ELSE IF Unread = <<>> THEN "EOF"
    ELSE "nil"

\* the numbers of bytes a conn.Read that returns bytes now may return: what
\* has arrived of the unread bytes, at least one
ChunkSizes ==
    1..(IF Len(Unread) < MaxChunk THEN Len(Unread) ELSE MaxChunk)

\* the error of a conn.Write that is called now; a write of a few bytes on
\* a fresh connection does not block
ConnWriteErr ==
    IF Expired(connDeadline) THEN "timeout"
    ELSE IF broken THEN "reset"
    ELSE "nil"

\* defer conn.Close() left out
DeferredCloseMissing(c) == c

\* defer conn.Close(): runs when Ping returns or panics
DeferredClose(c) == IF c = "open" THEN "closed" ELSE c

\* the packet ID check dropped
PacketIdAlwaysOk(id) == TRUE

\* packetId != 0 is an error
PacketIdOk(id) == IsZero(id)

\* one Read taken for the whole payload
SingleReadDone(n, min) == n > 0 \/ (Fits31(min) /\ n >= ToInt(min))

\* io.ReadFull's loop ends without error when n >= len(payload)
ReadFullDone(n, min) == Fits31(min) /\ n >= ToInt(min)

\* io.ReadFull's error when the read failed with n < len(payload)
ReadFullErr(n, err) == IF n > 0 /\ err = "EOF" THEN "UnexpectedEOF" ELSE err

\* binary.ReadUvarint's error when ReadByte failed after i bytes
ReadUvarintErr(i, err) == IF i > 0 /\ err = "EOF" THEN "UnexpectedEOF" ELSE err

\* the number of bytes a bufio Read copies into payload[n:]
CopyLen(min, n, avail) ==
    IF Fits31(min) /\ ToInt(min) - n < avail THEN ToInt(min) - n ELSE avail

\* the deadline computed again when it is applied
DeadlineAtApply == now + timeout

\* the argument of conn.SetDeadline: the local variable deadline
DeadlineToApply == deadline

NoResult == [err |-> "none", resp |-> ZeroResponse]

\* the value of parked when Ping is called once only
NoCall == [pc |-> "none"]

\* Ping's part of the state that a read step changes
Local ==
    [pc |-> pc, vx |-> vx, outerLen |-> outerLen, packetId |-> packetId,
     length |-> length, payload |-> payload, result |-> result,
     conn |-> conn, unmarshalled |-> unmarshalled]

\* a variant that dials again when the dial failed
RetRedialling(l, err) ==
    IF err \in {"dial", "dial_timeout"}
    THEN [l EXCEPT !.pc = "dial_call"]
    ELSE [l EXCEPT !.pc = "done",
                   !.result = [err |-> err, resp |-> ZeroResponse],
                   !.conn = DeferredClose(l.conn)]

\* return resp, err
Ret(l, err) ==
    [l EXCEPT !.pc = "done", !.result = [err |-> err, resp |-> ZeroResponse],
              !.conn = DeferredClose(l.conn)]

\* a run-time panic unwinds Ping
Panic(l) == [l EXCEPT !.pc = "panic", !.conn = DeferredClose(l.conn)]

\* json.Unmarshal(payload, &resp) and the return that follows
Finish(l) ==
    LET u == Unmarshal(l.payload)
    IN  [l EXCEPT !.pc = "done", !.unmarshalled = TRUE,
                  !.result = [err |-> u.err, resp |-> u.resp],
                  !.conn = DeferredClose(l.conn)]

\* a variant that checks the outer length against what follows it (one
\* byte of packet ID, one of payload length, and the payload)
AcceptCheckingOuterLen(l, v) ==
    CASE l.pc = "read_len" ->
            [l EXCEPT !.pc = "read_id", !.vx = <<>>, !.outerLen = v]
      [] l.pc = "read_id" ->
            IF PacketIdOk(v)
            THEN [l EXCEPT !.pc = "read_plen", !.vx = <<>>, !.packetId = v]
            ELSE Ret([l EXCEPT !.vx = <<>>, !.packetId = v], "packetId")
      [] l.pc = "read_plen" ->
            LET l1 == [l EXCEPT !.vx = <<>>, !.length = v]
            IN  IF ~(/\ Fits31(l.outerLen) /\ Fits31(v)
                     /\ ToInt(l.outerLen) = ToInt(v) + 2)
                THEN Ret(l1, "length")
                ELSE IF ExceedsMaxAlloc(v) THEN Panic(l1)
                ELSE IF ReadFullDone(0, v) THEN Finish(l1)
                ELSE [l1 EXCEPT !.pc = "read_payload"]

\* ReadUvarint returned v with no error
Accept(l, v) ==
    CASE l.pc = "read_len" ->
            [l EXCEPT !.pc = "read_id", !.vx = <<>>, !.outerLen = v]
      [] l.pc = "read_id" ->
            IF PacketIdOk(v)
            THEN [l EXCEPT !.pc = "read_plen", !.vx = <<>>, !.packetId = v]
            ELSE Ret([l EXCEPT !.vx = <<>>, !.packetId = v], "packetId")
      [] l.pc = "read_plen" ->
            LET l1 == [l EXCEPT !.vx = <<>>, !.length = v]
            IN  IF ExceedsMaxAlloc(v) THEN Panic(l1)
                ELSE IF ReadFullDone(0, v) THEN Finish(l1)
                ELSE [l1 EXCEPT !.pc = "read_payload"]

\* ReadUvarint got byte b from ReadByte (the loop of Go 1.15 and later,
\* which stops after MaxVarintLen64 bytes)
OnByte(l, b) ==
    IF b < 128
    THEN IF Len(l.vx) = MaxVarintLen64 - 1 /\ b > 1
         THEN Ret(l, "overflow")
         ELSE Accept(l, l.vx \o <<b>>)
    ELSE IF Len(l.vx) + 1 = MaxVarintLen64
         THEN Ret(l, "overflow")
         ELSE [l EXCEPT !.vx = l.vx \o <<b - 128>>]

SetLocal(l) ==
    /\ pc' = l.pc
    /\ vx' = l.vx
    /\ outerLen' = l.outerLen
    /\ packetId' = l.packetId
    /\ length' = l.length
    /\ payload' = l.payload
    /\ result' = l.result
    /\ conn' = l.conn
    /\ unmarshalled' = l.unmarshalled

Late == now >= entry + timeout

\* a variant that writes the request where the handshake is due
HandshakeWriteBytesSwapped(h, r) == r

\* a variant that writes only the length byte of the request
RequestWriteBytesShort(h, r) == SubSeq(r, 1, 1)

\* line 71: conn.Write(handshake), given the handshake h and requestPacket r
HandshakeWriteBytes(h, r) == h

\* line 73: conn.Write(requestPacket)
RequestWriteBytes(h, r) == r

\* the log after a read step: the first read of the connection's reader,
\* and json.Unmarshal when this step called it (u: it has been called)
ReadLog(u) ==
    (IF readAttempted THEN events ELSE Append(events, "read"))
        \o (IF u /\ ~unmarshalled THEN <<"decode">> ELSE <<>>)

-----------------------------------------------------------------------------
(* One call of Ping *)

\* the arguments the calls of Spec are made with
PingAddresses == { <<120>> }
PingPorts == { DefaultPort }
PingProtocolVersions == { 0 - 1, LatestProtocolVersion }
Timeouts == 0..MaxTimeout

RECURSIVE SeqsUpTo(_, _)
\* the sequences over S of length at most n
SeqsUpTo(S, n) ==
    IF n = 0 THEN { <<>> }
    ELSE LET r == SeqsUpTo(S, n - 1)
         IN  r \cup { Append(q, b) : q \in r, b \in S }

\* n continuation bytes 0x80
Cont(n) == [i \in 1..n |-> 128]

\* longer responses: a well-formed one ("{}"), one with a wrong outer length,
\* a payload that is not JSON, varints of more than 32 and more than 64
\* bits, a payload length beyond what make can allocate, and the sample
\* status, once as it is and once followed by two spaces, which makes a
\* payload of 128 bytes and a payload length of two bytes
LongResponses ==
    { <<4, 0, 2, 123, 125>>,
      <<4, 0, 2, 123>>,
      <<5, 0, 2, 123, 125>>,
      <<4, 0, 2, 125, 123>>,
      <<128, 0, 128, 0, 2, 123, 125>>,
      Cont(4) \o <<123, 0, 2, 123, 125>>,
      <<4, 0>> \o Cont(4) \o <<123, 123, 125>>,
      <<4, 0>> \o Cont(7) \o <<2, 123>>,
      Cont(9) \o <<2, 0, 0>>,
      Cont(9) \o <<1, 0, 0>>,
      Cont(10) \o <<0, 0>>,
      <<4>> \o Cont(9) \o <<0, 2, 123, 125>>,
      <<128, 1, 0, 126>> \o SamplePayload,
      <<131, 1, 0, 128, 1>> \o SamplePayload \o <<32, 32>> }

Responses == SeqsUpTo(ServerBytes, MaxRespLen) \cup LongResponses

Idle ==
    /\ now = 0
    /\ entry = 0
    /\ deadline = NoDeadline
    /\ dialDeadline = NoDeadline
    /\ conn = "none"
    /\ connDeadline = NoDeadline
    /\ deadlineSets = 0
    /\ handshake = EmptyBuffer
    /\ requestPacket = <<1, 0>>
    /\ hsErr = "none"
    /\ reqErr = "none"
    /\ out = <<>>
    /\ rpos = 0
    /\ broken = FALSE
    /\ buf = <<>>
    /\ vx = <<>>
    /\ outerLen = <<>>
    /\ packetId = <<>>
    /\ length = <<>>
    /\ payload = <<>>
    /\ nreads = 0
    /\ readAttempted = FALSE
    /\ unmarshalled = FALSE
    /\ lateIo = FALSE
    /\ result = NoResult
    /\ events = <<>>

\* there is no second call
NoPair == parked = NoCall /\ active = 1

\* putVarInt is not run on its own
NoVarint == varintArg = 0 /\ varintOut = EmptyBuffer

Init ==
    /\ address \in PingAddresses
    /\ port \in PingPorts
    /\ protocolVersion \in PingProtocolVersions
    /\ timeout \in Timeouts
    /\ response \in Responses
    /\ serverCloses \in BOOLEAN
    /\ pc = "start"
    /\ Idle
    /\ NoPair
    /\ NoVarint

inputVars == <<address, port, protocolVersion, timeout, requestPacket,
               response, serverCloses>>
netVars == <<rpos, broken>>
readVars == <<buf, vx, outerLen, packetId, length, payload, nreads,
              readAttempted, unmarshalled>>
writeVars == <<handshake, hsErr, reqErr, out>>
\* the state outside the call that is taking steps
offCallVars == <<parked, active, varintArg, varintOut>>

\* line 56: deadline := time.Now().Add(timeout)
Enter ==
    /\ pc = "start"
    /\ entry' = now
    /\ deadline' = now + timeout
    /\ pc' = "dial_call"
    /\ UNCHANGED events
    /\ UNCHANGED <<inputVars, offCallVars,
                   netVars, readVars, writeVars, now, dialDeadline,
                   conn, connDeadline, deadlineSets, lateIo, result>>

\* line 58: net.DialTimeout is called; a timeout of 0 is no timeout
DialBegin ==
    /\ pc = "dial_call"
    /\ dialDeadline' = IF timeout = 0 THEN NoDeadline ELSE now + timeout
    /\ pc' = "dialing"
    /\ events' = Append(events, "dial")
    /\ UNCHANGED <<inputVars, offCallVars,
                   netVars, readVars, writeVars, now, entry,
                   deadline, conn, connDeadline, deadlineSets, lateIo, result>>

\* line 58: the peer accepted before the dial's deadline
DialOk ==
    /\ pc = "dialing"
    /\ ~Expired(dialDeadline)
    /\ conn' = "open"
    /\ pc' = "setdeadline"
    /\ events' = Append(events, "open")
    /\ UNCHANGED <<inputVars, offCallVars,
                   netVars, readVars, writeVars, now, entry,
                   deadline, dialDeadline, connDeadline, deadlineSets, lateIo,
                   result>>

\* lines 58-61: the dial failed (refused, unresolved, or timed out)
DialFail ==
    /\ pc = "dialing"
    /\ LET l == Ret(Local, IF Expired(dialDeadline) THEN "dial_timeout"
                           ELSE "dial")
       IN  SetLocal(l)
    /\ UNCHANGED events
    /\ UNCHANGED <<inputVars, offCallVars,
                   netVars, writeVars, buf, nreads, readAttempted,
                   now, entry, deadline, dialDeadline, connDeadline,
                   deadlineSets, lateIo>>

\* line 64: conn.SetDeadline(deadline) succeeds
SetDeadlineOk ==
    /\ pc = "setdeadline"
    /\ connDeadline' = DeadlineToApply
    /\ deadlineSets' = deadlineSets + 1
    /\ pc' = "write_hs"
    /\ UNCHANGED events
    /\ UNCHANGED <<inputVars, offCallVars,
                   netVars, readVars, writeVars, now, entry,
                   deadline, dialDeadline, conn, lateIo, result>>

\* lines 64-66: conn.SetDeadline(deadline) fails
SetDeadlineFail ==
    /\ pc = "setdeadline"
    /\ SetLocal(Ret(Local, "setdeadline"))
    /\ UNCHANGED events
    /\ UNCHANGED <<inputVars, offCallVars,
                   netVars, writeVars, buf, nreads, readAttempted,
                   now, entry, deadline, dialDeadline, connDeadline,
                   deadlineSets, lateIo>>

\* lines 70-71: the handshake is built and written; the error of the write
\* is dropped
WriteHandshake ==
    /\ pc = "write_hs"
    /\ LET h == makeHandshakePacket(address, port, protocolVersion)
           e == ConnWriteErr
       IN  /\ handshake' = h
           /\ IF h.panic
              THEN /\ SetLocal(Panic(Local))
                   /\ UNCHANGED <<hsErr, out, lateIo, events>>
              ELSE /\ hsErr' = e
                   /\ out' = IF e = "nil"
                             THEN out \o HandshakeWriteBytes(h.bytes,
                                                             requestPacket)
                             ELSE out
                   /\ events' = Append(events, "write_hs")
                   /\ lateIo' = (lateIo \/ (e = "nil" /\ Late))
                   /\ SetLocal([Local EXCEPT !.pc = "write_req"])
    /\ UNCHANGED <<inputVars, offCallVars,
                   netVars, reqErr, buf, nreads, readAttempted,
                   now, entry, deadline, dialDeadline, connDeadline,
                   deadlineSets>>

\* lines 73-75: the request packet is written; the error is dropped
WriteRequest ==
    /\ pc = "write_req"
    /\ LET e == ConnWriteErr
       IN  /\ reqErr' = e
           /\ out' = IF e = "nil"
                     THEN out \o RequestWriteBytes(handshake.bytes,
                                                   requestPacket)
                     ELSE out
           /\ events' = Append(events, "write_req")
           /\ lateIo' = (lateIo \/ (e = "nil" /\ Late))
    /\ pc' = "read_len"
    /\ UNCHANGED <<inputVars, offCallVars,
                   netVars, readVars, handshake, hsErr, now, entry,
                   deadline, dialDeadline, conn, connDeadline, deadlineSets,
                   result>>

\* lines 78-98: one ReadByte of binary.ReadUvarint on the bufio.Reader, which
\* reads the connection when its buffer is empty, and the code up to the
\* next read
ReadVarintStep ==
    /\ pc \in {"read_len", "read_id", "read_plen"}
    /\ buf = <<>> => ConnReadReady
    /\ LET fill == buf = <<>>
           err == IF fill THEN ConnReadErr ELSE "nil"
       IN  /\ readAttempted' = TRUE
           /\ IF err # "nil"
              THEN /\ SetLocal(Ret(Local, ReadUvarintErr(Len(vx), err)))
                   /\ UNCHANGED <<buf, rpos, lateIo>>
              ELSE \E n \in IF fill THEN ChunkSizes ELSE {0} :
                   LET data == IF fill THEN SubSeq(Unread, 1, n) ELSE buf
                   IN  /\ SetLocal(OnByte(Local, Head(data)))
                       /\ buf' = Tail(data)
                       /\ rpos' = rpos + n
                       /\ lateIo' = (lateIo \/ (fill /\ Late))
    /\ events' = ReadLog(unmarshalled')
    /\ UNCHANGED <<inputVars, offCallVars,
                   writeVars, broken, nreads,
                   now, entry, deadline, dialDeadline, connDeadline,
                   deadlineSets>>

\* lines 99-106: one Read of io.ReadFull on the bufio.Reader, and, when the
\* payload is full, json.Unmarshal and the return
ReadPayloadStep ==
    /\ pc = "read_payload"
    /\ buf = <<>> => ConnReadReady
    /\ LET fill == buf = <<>>
           err == IF fill THEN ConnReadErr ELSE "nil"
       IN  /\ readAttempted' = TRUE
           /\ IF err # "nil"
              THEN /\ SetLocal(Ret(Local, ReadFullErr(Len(payload), err)))
                   /\ UNCHANGED <<buf, rpos, lateIo, nreads>>
              ELSE \E n \in IF fill THEN ChunkSizes ELSE {0} :
                   LET data == IF fill THEN SubSeq(Unread, 1, n) ELSE buf
                       k == CopyLen(length, Len(payload), Len(data))
                       p == payload \o SubSeq(data, 1, k)
                       l == [Local EXCEPT !.payload = p]
                   IN  /\ SetLocal(IF ReadFullDone(Len(p), length)
                                   THEN Finish(l) ELSE l)
                       /\ buf' = SubSeq(data, k + 1, Len(data))
                       /\ rpos' = rpos + n
                       /\ nreads' = IF nreads < MaxReadsCounted THEN nreads + 1
                                  ELSE nreads
                       /\ lateIo' = (lateIo \/ (fill /\ Late))
    /\ events' = ReadLog(unmarshalled')
    /\ UNCHANGED <<inputVars, offCallVars,
                   writeVars, broken,
                   now, entry, deadline, dialDeadline, connDeadline,
                   deadlineSets>>

-----------------------------------------------------------------------------
(* The peer, the network and the clock *)

Running ==
    pc \notin {"start", "done", "panic", "hs_start", "hs_built", "vi_start",
               "vi_done"}

\* the connection is reset: writes and reads fail from now on
NetReset ==
    /\ conn = "open"
    /\ ~broken
    /\ broken' = TRUE
    /\ UNCHANGED events
    /\ UNCHANGED <<inputVars, offCallVars,
                   readVars, writeVars, rpos, pc,
                   now, entry, deadline, dialDeadline, conn, connDeadline,
                   deadlineSets, lateIo, result>>

Tick ==
    /\ Running
    /\ now < MaxTime
    /\ now' = now + 1
    /\ UNCHANGED events
    /\ UNCHANGED <<inputVars, offCallVars,
                   netVars, readVars, writeVars, pc, entry,
                   deadline, dialDeadline, conn, connDeadline, deadlineSets,
                   lateIo, result>>

Next ==
    \/ Enter
    \/ DialBegin
    \/ DialOk
    \/ DialFail
    \/ SetDeadlineOk
    \/ SetDeadlineFail
    \/ WriteHandshake
    \/ WriteRequest
    \/ ReadVarintStep
    \/ ReadPayloadStep
    \/ NetReset
    \/ Tick

Spec == Init /\ [][Next]_vars

\* the steps of Ping itself; the Go scheduler runs the call whenever one of
\* its blocking calls can return, and the clock advances
PingStep ==
    \/ Enter
    \/ DialBegin
    \/ DialOk
    \/ DialFail
    \/ SetDeadlineOk
    \/ SetDeadlineFail
    \/ WriteHandshake
    \/ WriteRequest
    \/ ReadVarintStep
    \/ ReadPayloadStep

\* the calls made against a peer that never sends and never closes
SilentInit == Init /\ response = <<>> /\ ~serverCloses

SilentFairSpec ==
    SilentInit /\ [][Next]_vars /\ WF_vars(PingStep) /\ WF_vars(Tick)

-----------------------------------------------------------------------------
(* makeHandshakePacket on its own, over a wider set of arguments *)

HsAddresses ==
    SeqsUpTo({97, 120}, MaxAddrLen)
        \cup { [i \in 1..n |-> 120] : n \in {120, 121, 127, 128, 255} }
HsPorts == {0, 255, 256, DefaultPort, 65535}
HsProtocolVersions ==
    {MinInt32, 0 - 1, 0, 1, 127, 128, LatestProtocolVersion, 16384, MaxInt32}

InitHandshake ==
    /\ address \in HsAddresses
    /\ port \in HsPorts
    /\ protocolVersion \in HsProtocolVersions
    /\ timeout = 0
    /\ response = <<>>
    /\ serverCloses = FALSE
    /\ pc = "hs_start"
    /\ Idle
    /\ NoPair
    /\ NoVarint

\* lines 109-130: makeHandshakePacket(address, port, protocolVersion)
BuildHandshake ==
    /\ pc = "hs_start"
    /\ handshake' = makeHandshakePacket(address, port, protocolVersion)
    /\ pc' = "hs_built"
    /\ UNCHANGED events
    /\ UNCHANGED <<inputVars, offCallVars,
                   netVars, readVars, hsErr, reqErr, out, now,
                   entry, deadline, dialDeadline, conn, connDeadline,
                   deadlineSets, lateIo, result>>

NextHandshake == BuildHandshake

HandshakeSpec == InitHandshake /\ [][NextHandshake]_vars

-----------------------------------------------------------------------------
(* The claims *)

WriteFailed == hsErr \notin {"none", "nil"} \/ reqErr \notin {"none", "nil"}

\* C1: when the write of the handshake or of the request fails, Ping has
\* returned that write's error and has read nothing from the connection.
C1_WriteFailureEndsPing ==
    WriteFailed =>
        /\ pc = "done"
        /\ ~readAttempted
        /\ result.err = (IF hsErr \notin {"none", "nil"} THEN hsErr ELSE reqErr)

\* C2: once Ping has returned (or unwound), a connection it opened is
\* closed: no finished call leaves its connection open.
C2_ClosedOnReturn == pc \in {"done", "panic"} => conn # "open"

\* a successful return: the connection was opened and is closed
C2_Witness ==
    pc = "done" /\ result.err = "nil" /\ conn = "closed" /\ out # <<>>

\* the declared payload length has not been reached
PayloadShort == ~Fits31(length) \/ Len(payload) < ToInt(length)

ReadErrors == {"EOF", "UnexpectedEOF", "timeout", "reset"}

\* C3: the payload never grows past the declared length, the JSON decoder
\* is given exactly the declared number of bytes, and the payload read ends
\* short of the declared length only by a read error.
C3_PayloadExactLength ==
    /\ length # <<>> /\ Fits31(length) => Len(payload) <= ToInt(length)
    /\ unmarshalled => Fits31(length) /\ Len(payload) = ToInt(length)
    /\ (pc = "done" /\ length # <<>> /\ result.err \notin ReadErrors)
           => unmarshalled /\ ~PayloadShort

\* a payload of two bytes that arrived in two reads and was decoded
C3_Witness ==
    /\ pc = "done" /\ result.err = "nil"
    /\ nreads = 2 /\ payload = <<123, 125>> /\ length = <<2>>

\* C4: when the second varint, the packet ID, is not 0, whatever the first
\* varint was, Ping has returned the packet-ID error, has read no payload
\* length and no payload, and has decoded nothing.
C4_NonZeroPacketIdRejected ==
    (packetId # <<>> /\ ~IsZero(packetId)) =>
        /\ pc = "done"
        /\ result.err = "packetId"
        /\ result.resp = ZeroResponse
        /\ length = <<>>
        /\ payload = <<>>
        /\ nreads = 0
        /\ ~unmarshalled

\* varint(2) | varint(5) | varint(0) is rejected
C4_Witness ==
    /\ response = <<2, 5, 0>>
    /\ outerLen = <<2>> /\ packetId = <<5>>
    /\ pc = "done" /\ result.err = "packetId"

\* C5: when a call of Ping that read a payload length has ended with fewer
\* payload bytes than declared (the stream ended or the deadline passed
\* first), it has returned a read error and decoded nothing.
C5_TruncatedPayloadIsError ==
    (pc \in {"done", "panic"} /\ length # <<>> /\ PayloadShort) =>
        /\ pc = "done"
        /\ result.err \in ReadErrors
        /\ result.resp = ZeroResponse
        /\ ~unmarshalled

\* what holds of the calls that returned: a short payload is a read error,
\* io.EOF with no byte read and io.ErrUnexpectedEOF after some
ReturnedShortPayloadIsError ==
    (pc = "done" /\ length # <<>> /\ PayloadShort) =>
        /\ result.err \in ReadErrors
        /\ result.resp = ZeroResponse
        /\ ~unmarshalled
        /\ result.err = "EOF" => payload = <<>>
        /\ result.err = "UnexpectedEOF" => payload # <<>>

\* C6: every varint Ping accepted from the response (outer length, packet
\* ID, payload length) has a value of at most 32 bits.
C6_VarintsWithin32Bits ==
    \A v \in {outerLen, packetId, length} : v = <<>> \/ Fits32(v)

\* C7: makeHandshakePacket returns a packet for every address, port and
\* int32 protocol version: it never panics.
C7_HandshakeNeverPanics == pc = "hs_built" => ~handshake.panic

\* C8: the deadline is set on the connection at most once, after the dial
\* and before the first write or read; once set it is entry + timeout for
\* the rest of the call; and no write or read of the connection succeeds at
\* or after entry + timeout.
C8_DeadlineAppliedOnce ==
    /\ deadlineSets <= 1
    /\ pc \in {"start", "dial_call", "dialing", "setdeadline"} =>
          deadlineSets = 0 /\ hsErr = "none" /\ reqErr = "none"
          /\ out = <<>> /\ ~readAttempted
    /\ (hsErr # "none" \/ reqErr # "none" \/ readAttempted) => deadlineSets = 1
    /\ deadlineSets = 1 => conn # "none" /\ connDeadline = entry + timeout
    /\ deadlineSets = 0 => connDeadline = NoDeadline
    /\ ~lateIo

\* both packets were written under the deadline, the dial having taken
\* time, and the read then ran into that same deadline
C8_Witness ==
    /\ pc = "done" /\ result.err = "timeout"
    /\ deadlineSets = 1 /\ hsErr = "nil" /\ reqErr = "nil"
    /\ now = entry + timeout /\ timeout = MaxTimeout

\* C9: against a peer that accepts the connection and never sends a byte
\* (nor closes), a call of Ping that has ended has returned, with a timeout
\* error, and its connection is closed.
C9_SilentPeerTimesOut ==
    (/\ pc \in {"done", "panic"}
     /\ deadlineSets = 1
     /\ response = <<>> /\ ~serverCloses /\ ~broken) =>
        pc = "done" /\ result.err = "timeout" /\ conn = "closed"

\* C10: for a protocol version >= 0 the packet begins with a varint whose
\* value is the number of bytes that follow it.
C10_LengthPrefixed ==
    (pc = "hs_built" /\ protocolVersion >= 0) =>
        /\ ~handshake.panic
        /\ LET d == DecodeUvarint(handshake.bytes)
           IN  /\ d.err = "nil"
               /\ Fits31(d.value)
               /\ ToInt(d.value) = Len(handshake.bytes) - d.consumed

\* buildHandshakePacket("x", 25565, 0): 7 bytes follow the prefix 7
C10_Witness ==
    /\ pc = "hs_built"
    /\ address = <<120>> /\ port = 25565 /\ protocolVersion = 0
    /\ handshake.bytes = <<7, 0, 0, 1, 120, 99, 221, 1>>

\* what holds against the silent peer when the handshake could be built
SilentPeerTimesOutUnlessPanic ==
    (/\ pc \in {"done", "panic"}
     /\ deadlineSets = 1
     /\ response = <<>> /\ ~serverCloses /\ ~broken
     /\ ~handshake.panic) =>
        pc = "done" /\ result.err = "timeout" /\ conn = "closed"

\* under fair scheduling every call ends: a read that has nothing to
\* return is ended by the deadline
PingEnds == <>(pc \in {"done", "panic"})


RECURSIVE encodeVarint(_)
\* the varint of a non-negative integer as the protocol defines it: 7 bits
\* a byte, least significant group first, the high bit set on every byte
\* but the last
encodeVarint(v) ==
    IF v < 128 THEN <<v>> ELSE <<128 + (v % 128)>> \o encodeVarint(v \div 128)

\* the bytes of a packet after its length prefix
BodyOf(bytes) ==
    SubSeq(bytes, DecodeUvarint(bytes).consumed + 1, Len(bytes))

\* C11: the body of a handshake packet that was built is, in this order and
\* with nothing else, the byte 0x00, the varint of the protocol version,
\* the varint of the length of the address, the bytes of the address, the
\* port in two bytes most significant first, and the byte 0x01.
C11_HandshakeBodyLayout ==
    (pc = "hs_built" /\ ~handshake.panic) =>
        BodyOf(handshake.bytes) =
            <<0>> \o encodeVarint(protocolVersion)
                  \o encodeVarint(Len(address)) \o address
                  \o <<port \div 256, port % 256>> \o <<1>>

\* makeHandshakePacket("ax", 256, 498): the version takes two bytes and the
\* two bytes of the port differ
C11_Witness ==
    /\ pc = "hs_built"
    /\ address = <<97, 120>> /\ port = 256
    /\ protocolVersion = LatestProtocolVersion
    /\ handshake.bytes = <<9, 0, 242, 3, 2, 97, 120, 1, 0, 1>>


-----------------------------------------------------------------------------
(* putVarInt on its own *)

\* the small values, the values at which the encoding grows by a byte, and
\* two negative ones
VarintArgs ==
    (0..MaxVarintArg)
        \cup {16383, 16384, 2097151, 2097152, 268435455, 268435456, MaxInt32}
        \cup {0 - 1, MinInt32}

InitVarint ==
    /\ address = <<>>
    /\ port = 0
    /\ protocolVersion = 0
    /\ timeout = 0
    /\ response = <<>>
    /\ serverCloses = FALSE
    /\ pc = "vi_start"
    /\ Idle
    /\ NoPair
    /\ varintArg \in VarintArgs
    /\ varintOut = EmptyBuffer

\* lines 133-138: putVarInt(&buf, value) on an empty buffer
EncodeVarint ==
    /\ pc = "vi_start"
    /\ varintOut' = putVarInt(varintOut, varintArg)
    /\ pc' = "vi_done"
    /\ UNCHANGED <<inputVars, netVars, readVars, writeVars, now, entry,
                   deadline, dialDeadline, conn, connDeadline, deadlineSets,
                   lateIo, result, events, parked, active, varintArg>>

NextVarint == EncodeVarint

VarintSpec == InitVarint /\ [][NextVarint]_vars

\* the number of 7-bit groups of v, 0 <= v < 2^31
MinGroups(v) ==
    IF v < 128 THEN 1
    ELSE IF v < 16384 THEN 2
    ELSE IF v < 2097152 THEN 3
    ELSE IF v < 268435456 THEN 4
    ELSE 5

\* C12: for a value v >= 0, the bytes putVarInt wrote decode, by the rule of
\* the read side, to v, the decoding consumes all of them, and their number
\* is the number of 7-bit groups of v.
C12_VarintRoundTrip ==
    (pc = "vi_done" /\ varintArg >= 0) =>
        /\ ~varintOut.panic
        /\ LET d == DecodeUvarint(varintOut.bytes)
           IN  /\ d.err = "nil"
               /\ Fits31(d.value)
               /\ ToInt(d.value) = varintArg
               /\ d.consumed = Len(varintOut.bytes)
        /\ Len(varintOut.bytes) = MinGroups(varintArg)

\* 2^31 - 1 takes five bytes
C12_Witness ==
    /\ pc = "vi_done"
    /\ varintArg = MaxInt32
    /\ varintOut.bytes = <<255, 255, 255, 255, 7>>

\* 0 and 127 take one byte, 128 takes two
VarintSmallLengths ==
    pc = "vi_done" =>
        /\ varintArg \in {0, 127} => Len(varintOut.bytes) = 1
        /\ varintArg = 128 => varintOut.bytes = <<128, 1>>


-----------------------------------------------------------------------------
(* The response reader run on a whole byte stream *)

\* Ping's locals when it begins to read the response (line 75)
ReaderStart ==
    [pc |-> "read_len", vx |-> <<>>, outerLen |-> <<>>, packetId |-> <<>>,
     length |-> <<>>, payload |-> <<>>, result |-> NoResult,
     conn |-> "open", unmarshalled |-> FALSE]

RECURSIVE ReadAll(_, _, _)
\* lines 78-106 on the byte stream s, every byte of which arrives before the
\* deadline, from the locals l: the locals when Ping has ended, or when it
\* waits for a byte that does not come (closes: the peer closes after s)
ReadAll(l, s, closes) ==
    IF l.pc \in {"done", "panic"} THEN l
    ELSE IF s = <<>>
    THEN IF ~closes THEN l
         ELSE IF l.pc = "read_payload"
         THEN Ret(l, ReadFullErr(Len(l.payload), "EOF"))
         ELSE Ret(l, ReadUvarintErr(Len(l.vx), "EOF"))
    ELSE IF l.pc = "read_payload"
    THEN LET k == CopyLen(l.length, Len(l.payload), Len(s))
             p == l.payload \o SubSeq(s, 1, k)
             l1 == [l EXCEPT !.payload = p]
         IN  ReadAll(IF ReadFullDone(Len(p), l.length) THEN Finish(l1) ELSE l1,
                     SubSeq(s, k + 1, Len(s)), closes)
    ELSE ReadAll(OnByte(l, Head(s)), Tail(s), closes)

\* how a call ended, as its caller sees it
Outcome(l) == [pc |-> l.pc, result |-> l.result]

\* the bytes of the first varint of the response, and the bytes after it
FirstVarint == SubSeq(response, 1, DecodeUvarint(response).consumed)
AfterFirstVarint ==
    SubSeq(response, DecodeUvarint(response).consumed + 1, Len(response))

\* outer length varints: 0, 4, 5, 128, one of 35 bits and one of 64 bits
OuterVarints ==
    { <<0>>, <<4>>, <<5>>, <<128, 1>>, Cont(4) \o <<123>>, Cont(9) \o <<1>> }

\* errors of a read that come from the clock or the network, not from the
\* bytes of the response
TimingErrors == {"timeout", "reset"}

\* C13: when Ping has read the first varint of the response and has ended
\* otherwise than by a timeout or a reset, its outcome (the error returned,
\* the Response decoded, or the panic) is the outcome of reading the
\* response with any other first varint in its place.
C13_OuterLengthIgnored ==
    (/\ pc \in {"done", "panic"}
     /\ outerLen # <<>>
     /\ result.err \notin TimingErrors) =>
        \A v \in OuterVarints \cup {FirstVarint} :
            Outcome(ReadAll(ReaderStart, v \o AfterFirstVarint, serverCloses))
                = [pc |-> pc, result |-> result]

\* a response whose outer length (5) is not the number of bytes that follow
\* (4) was decoded
C13_Witness ==
    /\ response = <<5, 0, 2, 123, 125>>
    /\ outerLen = <<5>>
    /\ pc = "done" /\ result.err = "nil" /\ unmarshalled


-----------------------------------------------------------------------------
(* Well-formed responses *)

\* the three varints of the response, each decoded from where the one
\* before it ended
OuterLenField == DecodeUvarint(response)
PacketIdField == DecodeFrom(response, OuterLenField.consumed + 1, <<>>)
LengthField == DecodeFrom(response, PacketIdField.consumed + 1, <<>>)

\* the bytes of the response after its three varints
PayloadField == SubSeq(response, LengthField.consumed + 1, Len(response))

\* the JSON texts of the Response shape among the payloads of the model,
\* and what each decodes to
ResponseJson(p) ==
    IF TrimSpaces(p) = <<123, 125>> THEN {ZeroResponse}
    ELSE IF TrimSpaces(p) = SamplePayload THEN {SampleResponse}
    ELSE {}

\* varint | varint(0) | varint(n) | n bytes of JSON of the Response shape
WellFormedResponse ==
    /\ OuterLenField.err = "nil"
    /\ PacketIdField.err = "nil" /\ IsZero(PacketIdField.value)
    /\ LengthField.err = "nil" /\ Fits31(LengthField.value)
    /\ Len(PayloadField) = ToInt(LengthField.value)
    /\ ResponseJson(PayloadField) # {}

\* the call ended before its deadline on a connection that took the
\* deadline and was not reset: nothing kept the response from it
EndedInTime ==
    /\ pc \in {"done", "panic"}
    /\ deadlineSets = 1
    /\ ~broken
    /\ now < entry + timeout

\* C14: a call of Ping to which a well-formed response was delivered before
\* the deadline has returned no error and the Response decoded from the n
\* payload bytes, which for the sample payload has Players.Online = 3 and
\* Version.Protocol = 498.
C14_WellFormedResponseDecoded ==
    (WellFormedResponse /\ EndedInTime) =>
        /\ pc = "done"
        /\ result.err = "nil"
        /\ payload = PayloadField
        /\ result.resp \in ResponseJson(PayloadField)
        /\ PayloadField = SamplePayload =>
              /\ result.resp.PlayersOnline = 3
              /\ result.resp.VersionProtocol = 498

\* what holds of the calls whose handshake could be built
WellFormedResponseDecodedUnlessPanic ==
    (WellFormedResponse /\ EndedInTime /\ ~handshake.panic) =>
        /\ pc = "done"
        /\ result.err = "nil"
        /\ payload = PayloadField
        /\ result.resp \in ResponseJson(PayloadField)
        /\ PayloadField = SamplePayload =>
              /\ result.resp.PlayersOnline = 3
              /\ result.resp.VersionProtocol = 498

\* the sample status was decoded
SampleDecoded ==
    /\ pc = "done" /\ result.err = "nil"
    /\ payload = SamplePayload
    /\ result.resp.PlayersOnline = 3
    /\ result.resp.VersionProtocol = 498


-----------------------------------------------------------------------------
(* Two calls of Ping at once *)

\* Every variable of a call is a parameter or a local of Ping, or belongs
\* to the connection the call dialled; the program's one package-level
\* variable is requestPacket, and both calls read the same clock.  The
\* variables hold the call that takes steps; the other one is parked.

\* the call the variables hold
Park ==
    [address |-> address, port |-> port, protocolVersion |-> protocolVersion,
     timeout |-> timeout, pc |-> pc, entry |-> entry, deadline |-> deadline,
     dialDeadline |-> dialDeadline, conn |-> conn,
     connDeadline |-> connDeadline, deadlineSets |-> deadlineSets,
     handshake |-> handshake, hsErr |-> hsErr, reqErr |-> reqErr, out |-> out,
     response |-> response, serverCloses |-> serverCloses, rpos |-> rpos,
     broken |-> broken, buf |-> buf, vx |-> vx, outerLen |-> outerLen,
     packetId |-> packetId, length |-> length, payload |-> payload,
     nreads |-> nreads, readAttempted |-> readAttempted,
     unmarshalled |-> unmarshalled, lateIo |-> lateIo, result |-> result,
     events |-> events]

\* a variant in which the calls read through one package-level reader
SharedReaderBuf(c, shared) == shared

\* line 75: reader := bufio.NewReader(conn) is a local of the call c, so the
\* buffer c reads from is its own whatever the other call left in its own
ReaderBuf(c, shared) == c.buf

\* the scheduler runs the other call
Switch ==
    /\ parked # NoCall
    /\ parked.pc \notin {"done", "panic"}
    /\ parked' = Park
    /\ active' = 3 - active
    /\ address' = parked.address
    /\ port' = parked.port
    /\ protocolVersion' = parked.protocolVersion
    /\ timeout' = parked.timeout
    /\ pc' = parked.pc
    /\ entry' = parked.entry
    /\ deadline' = parked.deadline
    /\ dialDeadline' = parked.dialDeadline
    /\ conn' = parked.conn
    /\ connDeadline' = parked.connDeadline
    /\ deadlineSets' = parked.deadlineSets
    /\ handshake' = parked.handshake
    /\ hsErr' = parked.hsErr
    /\ reqErr' = parked.reqErr
    /\ out' = parked.out
    /\ response' = parked.response
    /\ serverCloses' = parked.serverCloses
    /\ rpos' = parked.rpos
    /\ broken' = parked.broken
    /\ buf' = ReaderBuf(parked, buf)
    /\ vx' = parked.vx
    /\ outerLen' = parked.outerLen
    /\ packetId' = parked.packetId
    /\ length' = parked.length
    /\ payload' = parked.payload
    /\ nreads' = parked.nreads
    /\ readAttempted' = parked.readAttempted
    /\ unmarshalled' = parked.unmarshalled
    /\ lateIo' = parked.lateIo
    /\ result' = parked.result
    /\ events' = parked.events
    /\ UNCHANGED <<now, requestPacket, varintArg, varintOut>>

\* what the first call's server answers, and then closes: a well-formed
\* response, or one whose payload is cut short
PairResponses == { <<4, 0, 2, 123, 125>>, <<4, 0, 2, 123>> }

\* what the second call's server answers, and then stays silent: a wrong
\* packet ID
SecondResponse == <<2, 5, 0>>

\* the second call before it is entered
SecondCall ==
    [address |-> <<97>>, port |-> 256, protocolVersion |-> 0,
     timeout |-> 1, pc |-> "start", entry |-> 0, deadline |-> NoDeadline,
     dialDeadline |-> NoDeadline, conn |-> "none",
     connDeadline |-> NoDeadline, deadlineSets |-> 0,
     handshake |-> EmptyBuffer, hsErr |-> "none", reqErr |-> "none",
     out |-> <<>>, response |-> SecondResponse, serverCloses |-> FALSE,
     rpos |-> 0,
     broken |-> FALSE, buf |-> <<>>, vx |-> <<>>, outerLen |-> <<>>,
     packetId |-> <<>>, length |-> <<>>, payload |-> <<>>, nreads |-> 0,
     readAttempted |-> FALSE, unmarshalled |-> FALSE, lateIo |-> FALSE,
     result |-> NoResult, events |-> <<>>]

\* two calls, to two servers, neither entered yet
PairInit ==
    /\ address = <<120>>
    /\ port = DefaultPort
    /\ protocolVersion = LatestProtocolVersion
    /\ timeout = 1
    /\ response \in PairResponses
    /\ serverCloses = TRUE
    /\ pc = "start"
    /\ Idle
    /\ NoVarint
    /\ active = 1
    /\ parked = SecondCall

PairNext == Next \/ Switch

PairSpec == PairInit /\ [][PairNext]_vars

\* the calls there are
Calls == {Park} \cup (IF parked = NoCall THEN {} ELSE {parked})

\* c wrote to its connection, in order, its own handshake and the request
OwnWrites(c) ==
    LET h == makeHandshakePacket(c.address, c.port, c.protocolVersion).bytes
    IN  c.out \in {<<>>, h, h \o <<1, 0>>}

\* the bytes c took and holds are those of its own server's response
OwnReads(c) ==
    /\ c.rpos <= Len(c.response)
    /\ Len(c.buf) <= c.rpos
    /\ c.buf = SubSeq(c.response, c.rpos - Len(c.buf) + 1, c.rpos)
    /\ c.pc = "read_payload" =>
          c.payload \o c.buf =
              SubSeq(c.response, c.rpos - Len(c.payload) - Len(c.buf) + 1,
                     c.rpos)

\* the deadline on c's connection is the one c computed at its own entry
OwnDeadline(c) ==
    /\ c.deadline \in {NoDeadline, c.entry + c.timeout}
    /\ c.connDeadline \in {NoDeadline, c.deadline}

\* c, having read from its connection, ended as it would have ended alone
\* against the same server, unless the clock or the network ended it
OutcomeAsAlone(c) ==
    (/\ c.pc \in {"done", "panic"}
     /\ c.readAttempted
     /\ c.result.err \notin TimingErrors) =>
        Outcome(c) = Outcome(ReadAll(ReaderStart, c.response, c.serverCloses))

\* C15: under every interleaving of two calls of Ping, each call writes and
\* reads its own connection only, under its own deadline and through its own
\* buffers, the one shared variable (requestPacket) is never written, and
\* each call's outcome is the one it has alone against the same server.
C15_ConcurrentCallsIndependent ==
    /\ requestPacket = <<1, 0>>
    /\ \A c \in Calls :
          OwnWrites(c) /\ OwnReads(c) /\ OwnDeadline(c) /\ OutcomeAsAlone(c)

\* both calls have ended, interleaved, the first with a decoded response and
\* the second with the packet-ID error of its own server's answer
C15_Witness ==
    /\ parked # NoCall
    /\ \E c1, c2 \in Calls :
          /\ c1.address = <<120>> /\ c2.address = <<97>>
          /\ c1.pc = "done" /\ c1.result.err = "nil"
          /\ c1.response = <<4, 0, 2, 123, 125>>
          /\ c2.pc = "done" /\ c2.result.err = "packetId"
          /\ c2.response = <<2, 5, 0>>
          /\ c1.entry < c2.entry + c2.timeout
          /\ c2.entry < c1.entry + c1.timeout


-----------------------------------------------------------------------------
(* The order and the number of the network calls *)

\* the network calls of a call of Ping that runs to its end
CallOrder == <<"dial", "open", "write_hs", "write_req", "read", "decode">>

IsPrefix(s, t) == Len(s) <= Len(t) /\ s = SubSeq(t, 1, Len(s))

Happened(e) == \E i \in 1..Len(events) : events[i] = e

\* C16: the network calls of Ping happen in the order dial, connection
\* open, write of the handshake, write of the request, first read, decoding;
\* the connection has taken the bytes of the handshake before those of the
\* request; no byte is read before both writes were issued; and the payload
\* is decoded only when the framed read has filled it.
C16_CallOrder ==
    /\ IsPrefix(events, CallOrder)
    /\ out \in {<<>>, handshake.bytes, handshake.bytes \o <<1, 0>>}
    /\ (readAttempted \/ rpos > 0) =>
          Happened("write_hs") /\ Happened("write_req")
          /\ hsErr # "none" /\ reqErr # "none"
    /\ Happened("write_hs") => conn # "none"
    /\ (Happened("decode") \/ unmarshalled) =>
          /\ Happened("read")
          /\ Fits31(length) /\ Len(payload) = ToInt(length)

\* a call that ran to its end: every event happened, in order
C16_Witness ==
    /\ pc = "done" /\ result.err = "nil"
    /\ events = CallOrder
    /\ out = handshake.bytes \o <<1, 0>>
    /\ rpos = Len(response)


\* how many times the network call e was made
Count(e) == Cardinality({ i \in 1..Len(events) : events[i] = e })

\* C17: a call of Ping dials at most once, opens at most one connection and
\* writes the handshake and the request at most once each; and once an
\* error is its result it has returned, with its connection closed, so that
\* nothing more is dialled or sent.
C17_OneAttempt ==
    /\ \A e \in {"dial", "open", "write_hs", "write_req"} : Count(e) <= 1
    /\ Len(out) <= Len(handshake.bytes) + 2
    /\ result.err \notin {"none", "nil"} =>
          pc = "done" /\ conn # "open" /\ result.resp = ZeroResponse
    /\ (pc \in {"done", "panic"} /\ result.err # "nil") => Count("dial") = 1
    /\ (pc = "dialing" \/ pc = "setdeadline") => Count("dial") = 1

\* a call that failed after both writes: it returned the packet-ID error
\* having dialled once and written each packet once
C17_Witness ==
    /\ pc = "done" /\ result.err = "packetId"
    /\ events = <<"dial", "open", "write_hs", "write_req", "read">>
    /\ conn = "closed"

\* a call whose dial failed returned having dialled once
DialFailedOnce ==
    /\ pc = "done" /\ result.err \in {"dial", "dial_timeout"}
    /\ events = <<"dial">>


\* C18: whatever calls of Ping are made, one after the other or at once,
\* the package-level requestPacket is the two bytes 0x01, 0x00, and the
\* bytes a call's write of the request put on its connection, after those
\* of the handshake, are exactly these two.
C18_RequestPacketFixed ==
    /\ requestPacket = <<1, 0>>
    /\ \A c \in Calls :
          c.reqErr = "nil" =>
              c.out = (IF c.hsErr = "nil" THEN c.handshake.bytes ELSE <<>>)
                          \o <<1, 0>>

\* two calls with different arguments have both written the request
C18_Witness ==
    /\ parked # NoCall
    /\ reqErr = "nil" /\ parked.reqErr = "nil"
    /\ address # parked.address
    /\ protocolVersion # parked.protocolVersion
    /\ SubSeq(out, Len(out) - 1, Len(out)) = <<1, 0>>
    /\ SubSeq(parked.out, Len(parked.out) - 1, Len(parked.out)) = <<1, 0>>
    /\ pc = "done" /\ parked.pc = "done"


-----------------------------------------------------------------------------
(* The budget of a call *)

\* a step that ends the dial otherwise than by the dial's own timeout
DialEnds ==
    /\ pc = "dialing" /\ pc' # "dialing"
    /\ (conn' = "open" \/ result'.err = "dial")

\* a step in which the connection takes bytes from Ping or gives it some
IoSucceeds == out' # out \/ rpos' # rpos

\* what a step of a call does when the call keeps to its budget: the
\* deadline is entry + timeout from the entry on, the dial is given the
\* timeout as its bound, and the dial ends, and bytes are written and read,
\* before entry + timeout (a call that is still blocked at entry + timeout
\* fails there)
KeepsBudget ==
    /\ (pc = "start" /\ pc' = "dial_call") =>
          entry' = now /\ deadline' = now + timeout
    /\ pc' \notin {"start", "hs_start", "hs_built", "vi_start", "vi_done"} =>
          deadline' = entry' + timeout
    /\ (pc = "dial_call" /\ pc' = "dialing") => dialDeadline' = now + timeout
    /\ DialEnds => now <= entry + timeout
    /\ IoSucceeds => now < entry + timeout

\* C19: the deadline is fixed at entry + timeout before the dial, the dial
\* is bounded by the same timeout, and every blocking step of Ping (dial,
\* writes, reads) has completed or failed by entry + timeout.
C19_AllStepsWithinBudget == [][KeepsBudget]_vars

\* what holds of the calls with a timeout above 0 whose dial began at the
\* instant of entry
BudgetKeptWhenDialBounded ==
    [][(/\ timeout > 0
        /\ pc' \notin {"start", "dial_call"} =>
               dialDeadline' = entry' + timeout)
           => KeepsBudget]_vars

\* what holds of every call: the deadline is entry + timeout, fixed before
\* the dial, and no byte is written or read at or after it
DeadlineFixedAtEntry ==
    [][/\ (pc = "start" /\ pc' = "dial_call") =>
              entry' = now /\ deadline' = now + timeout
       /\ pc \notin {"start", "hs_start", "hs_built", "vi_start", "vi_done"} =>
              deadline' = deadline /\ deadline = entry + timeout
       /\ IoSucceeds => now < entry + timeout]_vars

====
